---- MODULE Spec2Model ----
(***************************************************************************)
(* A model of ansibug's debuggee side, src/ansibug/_debuggee.py: the       *)
(* AnsibleDebugger singleton (breakpoint registry, id counters, strategy   *)
(* handoff, outbound queue), its background task _recv_task and the        *)
(* DAProtocol callbacks the transport invokes.                             *)
(*                                                                         *)
(* Python values are modelled as follows.  None, where the code holds an   *)
(* Optional[int] (a table entry, Breakpoint.line, Breakpoint.end_line), is *)
(* the number None below; a str path is the sequence of its characters; a  *)
(* dict is a function whose DOMAIN is its key set, or, where the code      *)
(* depends on the dict's insertion order (self._breakpoints), a sequence   *)
(* in insertion order; a list indexed from 0 is a sequence indexed from 1. *)
(***************************************************************************)
EXTENDS Integers, Sequences, FiniteSets, TLC

----------------------------------------------------------------------------
(* Bounds of the model. *)

\* Largest line the runtime registers (register_path_breakpoint's line).
MaxLine == 2
\* Largest line a client requests in a set-breakpoints request: line 1 is past
\* the end of a table of one entry, a continuation in <<0, None, 1>>, and a
\* classified line in <<0, 1>>.
MaxReqLine == 1
\* Breakpoint ids are handed out while the counter is at most this.
MaxBpId == 2
\* The outbound queue holds at most this many items (queue.Queue is unbounded).
MaxQueue == 2
\* Transport sessions the peer side opens.
MaxSessions == 2
\* Longest classification table the resolution functions are applied to.
MaxTableLen == 6
\* Largest requested line the resolution functions are applied to.
MaxResolveLine == 7
\* The id counters are read while they are at most this.
MaxCounter == 3
\* Callers and the peer add to the outbound queue while fewer than this many
\* items wait in it (the models of the connection).
MaxBacklog == 1
\* Longest client path, longest root and longest list of path mappings the
\* path translations are applied to.
MaxPathLen == 2
MaxRootLen == 1
MaxMappings == 2

----------------------------------------------------------------------------
(* Values. *)

\* Python's None in an Optional[int] position.
None == -1

\* The three entries of a classification table (the comment at lines 239-247).
Invalid == 0
ValidStart == 1
Continuation == None

MsgModified == "Cannot set breakpoint on a modified source."
MsgNotLoaded == "File has not been loaded by Ansible, cannot detect breakpoints yet."
MsgCannotSet == "Breakpoint cannot be set here."
MsgNone == "None"

Min(a, b) == IF a <= b THEN a ELSE b

\* list[i] as Python evaluates it: a negative index counts from the end.
PyIndex(list, i) == IF i >= 0 THEN list[i + 1] ELSE list[Len(list) + i + 1]

\* str.startswith
StartsWith(path, root) ==
    /\ Len(root) <= Len(path)
    /\ SubSeq(path, 1, Len(root)) = root

\* new_root + path[len(old_root):]
ReplaceRoot(path, old_root, new_root) ==
    new_root \o SubSeq(path, Len(old_root) + 1, Len(path))

----------------------------------------------------------------------------
(* The resolution code, which the source holds twice. *)

\* A resolution that does not walk back from a continuation line.
WalkBackNever(file_lines, start_line) == start_line

\* while line_type is None: start_line -= 1; line_type = file_lines[start_line]
\* (an index below -len(file_lines) raises IndexError in Python; the walk stops
\* there. No table the code builds from lines >= 0 and types 0, 1 gets that far.)
RECURSIVE WalkBack(_, _)
WalkBack(file_lines, start_line) ==
    IF PyIndex(file_lines, start_line) = None /\ start_line > -Len(file_lines)
    THEN WalkBack(file_lines, start_line - 1)
    ELSE start_line

\* while end_line < len(file_lines) and file_lines[end_line] is None: end_line += 1
RECURSIVE ScanEnd(_, _)
ScanEnd(file_lines, end_line) ==
    IF end_line < Len(file_lines) /\ PyIndex(file_lines, end_line) = None
    THEN ScanEnd(file_lines, end_line + 1)
    ELSE end_line

\* if line_type == 0: unverified, "Breakpoint cannot be set here." else verified
Classify(line_type, start_line, end_line) ==
    IF line_type = 0
    THEN [verified |-> FALSE, message |-> MsgCannotSet,
          line |-> start_line, end_line |-> end_line]
    ELSE [verified |-> TRUE, message |-> MsgNone,
          line |-> start_line, end_line |-> end_line]

\* A resolution that reports the range's exclusive end instead of its last line.
SetBpResolveExclusiveEnd(source_info_p, line) ==
    LET first == Min(line, Len(source_info_p) - 1)
        start_line == WalkBack(source_info_p, first)
        end_line == ScanEnd(source_info_p, first + 1)
    IN  Classify(PyIndex(source_info_p, start_line), start_line,
                 Min(end_line, Len(source_info_p)))

\* The copy in the set-breakpoints handler. The forward scan starts at
\* min(line, len - 1) + 1, set before start_line is walked back.
SetBpResolve(source_info_p, line) ==
    LET first == Min(line, Len(source_info_p) - 1)
        start_line == WalkBack(source_info_p, first)
        end_line == ScanEnd(source_info_p, first + 1)
    IN  Classify(PyIndex(source_info_p, start_line), start_line,
                 Min(end_line - 1, Len(source_info_p)))

\* A copy that reports the range's exclusive end instead of its last line.
RegisterResolveExclusiveEnd(file_lines, line) ==
    LET first == Min(line, Len(file_lines) - 1)
        start_line == WalkBack(file_lines, first)
        end_line == ScanEnd(file_lines, first + 1)
    IN  Classify(PyIndex(file_lines, start_line), start_line,
                 Min(end_line, Len(file_lines)))

\* The copy in register_path_breakpoint.
RegisterResolve(file_lines, line) ==
    LET first == Min(line, Len(file_lines) - 1)
        start_line == WalkBack(file_lines, first)
        end_line == ScanEnd(file_lines, first + 1)
    IN  Classify(PyIndex(file_lines, start_line), start_line,
                 Min(end_line - 1, Len(file_lines)))

\* file_lines.extend([None] * (1 + line - len(file_lines))); file_lines[line] = bp_type
ExtendTable(file_lines, line, bp_type) ==
    LET extended == [i \in 1..(IF line + 1 > Len(file_lines) THEN line + 1
                                ELSE Len(file_lines)) |->
                        IF i <= Len(file_lines) THEN file_lines[i] ELSE None]
    IN  [extended EXCEPT ![line + 1] = bp_type]

\* self._source_info.setdefault(path, [0]), then the extension and the write
RegisteredTable(info, path, line, bp_type) ==
    ExtendTable(IF path \in DOMAIN info THEN info[path] ELSE <<0>>, line, bp_type)

----------------------------------------------------------------------------
(* State. *)

VARIABLES
    \* --- breakpoint registry (AnsibleDebugger.__init__, lines 231-264)
    source_info,          \* self._source_info: path -> classification table
    breakpoints,          \* self._breakpoints, in insertion order
    breakpoint_counter,   \* self._breakpoint_counter
    debug_config,         \* self._debug_config.path_mappings
    \* --- outbound queue and latches (lines 217-229)
    send_queue,           \* self._send_queue: the items not yet taken by get()
    unfinished,           \* self._send_queue.unfinished_tasks, what join() waits on
    send_queue_active,    \* self._send_queue_active
    da_connected,         \* self._da_connected
    configuration_done,   \* self._configuration_done
    cancelled,            \* self._cancel_token has been cancelled
    strategy,             \* self._strategy: 0 is None, else the attached strategy
    \* --- the background task _recv_task
    mode,                 \* "none" before start(), then "connect" or "listen"
    pcRecv,               \* where _recv_task is
    resp,                 \* its local resp, the item being sent (kind and stamp)
    stopTo,               \* where it continues once the with block has exited
    pidFile,              \* the discovery file exists
    \* --- the transport's delivery thread (it runs the DAProtocol callbacks)
    tpc,                  \* where the delivery thread is
    tmsg,                 \* the request it is dispatching
    tstrat,               \* the strategy _get_strategy returned to the handler
    tinfo,                \* the set-breakpoints handler's local source_info:
                          \* "None", or "list" for a reference to the table
    \* --- callers of the public methods
    pcStrat,              \* the runtime thread and with_strategy: "out" before
                          \* it first enters, "left" once it has exited
    pcShut,               \* the thread calling shutdown()
    pcWait,               \* the thread calling wait_for_config_done()
    thread_counter,       \* self._thread_counter
    stackframe_counter,   \* self._stackframe_counter
    variable_counter,     \* self._variable_counter
    callers,              \* the threads inside next_*_id: pc, which counter, locals
    \* --- the resolution functions applied to one input
    rs,
    \* --- what an observer of the run has seen (no code reads these)
    session,              \* transport sessions accepted or connected so far
    sessionOpen,          \* between connection_made and connection_closed
    sent,                 \* of the item mp_queue.send() transmitted last: the
                          \* session it was queued in, the session it went to
    cfgDoneIn,            \* the sessions in which configuration-done was handled
    attachSess,           \* the session connected when with_strategy tested it
    ended,                \* calls of strategy.ended()
    issued,               \* the ids the next_*_id calls have returned
    reissued              \* the ids they have returned more than once

regVars == <<source_info, breakpoints, breakpoint_counter, debug_config>>
queueVars == <<send_queue, unfinished>>
latchVars == <<send_queue_active, da_connected, configuration_done, cancelled>>
recvVars == <<mode, pcRecv, resp, stopTo, pidFile>>
transVars == <<tpc, tmsg, tstrat, tinfo>>
stratVars == <<strategy, pcStrat, attachSess>>
idVars == <<thread_counter, stackframe_counter, variable_counter, callers, issued,
           reissued>>
obsVars == <<session, sessionOpen, sent, cfgDoneIn, ended>>

vars == <<regVars, queueVars, latchVars, recvVars, transVars, stratVars, pcShut,
          pcWait, idVars, rs, obsVars>>

NoMsg == [kind |-> "none"]
NoTable == <<>>

\* The threads that call next_thread_id, next_stackframe_id, next_variable_id.
Callers == {"t1", "t2"}
Counters == {"thread", "stackframe", "variable"}

\* AnsibleDebugger.__init__; nothing is being resolved, nobody is in a call.
InitDebugger ==
    /\ source_info = <<>>
    /\ breakpoints = <<>>
    /\ breakpoint_counter = 1
    /\ debug_config = <<>>
    /\ send_queue = <<>>
    /\ unfinished = 0
    /\ send_queue_active = FALSE
    /\ da_connected = FALSE
    /\ configuration_done = FALSE
    /\ cancelled = FALSE
    /\ strategy = 0
    /\ mode = "none"
    /\ pcRecv = "idle"
    /\ resp = NoMsg
    /\ stopTo = "none"
    /\ pidFile = FALSE
    /\ tpc = "none"
    /\ tmsg = NoMsg
    /\ tstrat = 0
    /\ tinfo = "unset"
    /\ pcStrat = "out"
    /\ pcShut = "idle"
    /\ pcWait = "idle"
    /\ thread_counter = 2
    /\ stackframe_counter = 1
    /\ variable_counter = 1
    /\ callers = [c \in Callers |-> [pc |-> "idle", counter |-> "none", id |-> 0, tmp |-> 0]]
    /\ session = 0
    /\ sessionOpen = FALSE
    /\ sent = [sess |-> 0, session |-> 0]
    /\ cfgDoneIn = {}
    /\ attachSess = 0
    /\ ended = 0
    /\ issued = {}
    /\ reissued = {}

Init ==
    /\ InitDebugger
    /\ rs = [T |-> <<0>>, line |-> 0, out |-> NoMsg, pc |-> "idle"]

----------------------------------------------------------------------------
(* send(): the queue takes the item only while _send_queue_active. *)

\* The item as it sits in the queue; sess records the session open at the call,
\* or, when none is open, minus the number of sessions begun so far. No code
\* reads it.
Stamp(msg) == [msg |-> msg, sess |-> IF sessionOpen THEN session ELSE 0 - session]

RECURSIVE PutAll(_, _)
PutAll(queue, msgs) ==
    IF msgs = <<>> THEN queue
    ELSE PutAll(Append(queue, Stamp(Head(msgs))), Tail(msgs))

\* The queue drops every item: a send() that never checks _send_queue_active
\* and has nowhere to put the item.
QueueAfterSendDropAll(msgs) == send_queue

\* self._send_queue after send(m) for each m of msgs, in order
QueueAfterSend(msgs) ==
    IF send_queue_active THEN PutAll(send_queue, msgs) ELSE send_queue

\* The calls of send(m), m in msgs, as one step of the caller.
Send(msgs) ==
    /\ send_queue' = QueueAfterSend(msgs)
    /\ unfinished' = unfinished + (Len(QueueAfterSend(msgs)) - Len(send_queue))

\* The queue has room for n more items.
Room(n) == send_queue_active => Len(send_queue) + n <= MaxQueue

----------------------------------------------------------------------------
(* The breakpoint registry. *)

\* The path Ansible knows for a client path: the first mapping whose local_root
\* is a prefix rewrites it (lines 687-691).
RECURSIVE ActualPath(_, _)
ActualPath(path_mappings, source_path) ==
    IF path_mappings = <<>> THEN source_path
    ELSE IF StartsWith(source_path, Head(path_mappings).local_root)
         THEN ReplaceRoot(source_path, Head(path_mappings).local_root,
                          Head(path_mappings).remote_root)
         ELSE ActualPath(Tail(path_mappings), source_path)

\* convert_to_client_path: the first mapping whose remote_root is a prefix.
RECURSIVE convert_to_client_path(_, _)
convert_to_client_path(path_mappings, path) ==
    IF path_mappings = <<>> THEN path
    ELSE IF StartsWith(path, Head(path_mappings).remote_root)
         THEN ReplaceRoot(path, Head(path_mappings).remote_root,
                          Head(path_mappings).local_root)
         ELSE convert_to_client_path(Tail(path_mappings), path)

\* A filter that drops every stored breakpoint, whatever its client path.
KeptBreakpointsNone(source_path) == <<>>

\* {bpid: b for bpid, b in self._breakpoints.items() if b.source_path != source_path}
KeptBreakpoints(source_path) ==
    SelectSeq(breakpoints, LAMBDA b : b.source_path # source_path)

\* A handler that resolves a breakpoint of a modified source like any other.
NewBreakpointIgnoringModified(bp_id, source_modified, source_info_p, line) ==
    IF source_info_p = NoTable
    THEN [id |-> bp_id, verified |-> FALSE, message |-> MsgNotLoaded,
          line |-> line, end_line |-> None]
    ELSE [id |-> bp_id] @@ SetBpResolve(source_info_p, line)

\* The dap.Breakpoint the handler builds for one requested line (lines 705-753).
\* source_info_p is self._source_info.get(actual_path), NoTable for None.
NewBreakpoint(bp_id, source_modified, source_info_p, line) ==
    IF source_modified
    THEN [id |-> bp_id, verified |-> FALSE, message |-> MsgModified,
          line |-> None, end_line |-> None]
    ELSE IF source_info_p = NoTable
    THEN [id |-> bp_id, verified |-> FALSE, message |-> MsgNotLoaded,
          line |-> line, end_line |-> None]
    ELSE [id |-> bp_id] @@ SetBpResolve(source_info_p, line)

\* A handler that stores the breakpoints of a modified source too.
StoredOfRequestAlways(msg, actual_path, breakpoint_info) ==
    [i \in 1..Len(msg.lines) |->
        [id |-> breakpoint_info[i].id, source_path |-> msg.source_path,
         actual_path |-> actual_path, sb_line |-> msg.lines[i],
         bp |-> breakpoint_info[i]]]

\* The AnsibleLineBreakpoints the handler stores: none for a modified source
\* (the continue at line 714), else one per requested line (lines 755-762).
StoredOfRequest(msg, actual_path, breakpoint_info) ==
    IF msg.source_modified THEN <<>>
    ELSE [i \in 1..Len(msg.lines) |->
            [id |-> breakpoint_info[i].id, source_path |-> msg.source_path,
             actual_path |-> actual_path, sb_line |-> msg.lines[i],
             bp |-> breakpoint_info[i]]]

\* self._source_info.get(actual_path, None) (line 693), NoTable for None.
TableRead(msg) ==
    LET actual_path == ActualPath(debug_config, msg.source_path)
    IN  IF actual_path \in DOMAIN source_info
        THEN source_info[actual_path] ELSE NoTable

\* The handler from line 697 on, its local source_info being source_info_p: the
\* filter, the loop over the requested lines, the store and the response.
SetBreakpointsEffect(msg, source_info_p) ==
    LET source_path == msg.source_path
        actual_path == ActualPath(debug_config, source_path)
        breakpoint_info ==
            [i \in 1..Len(msg.lines) |->
                NewBreakpoint(breakpoint_counter + i - 1, msg.source_modified,
                              source_info_p, msg.lines[i])]
        response == [kind |-> "SetBreakpointsResponse", request_seq |-> msg.seq,
                     breakpoints |-> breakpoint_info]
    IN  /\ breakpoint_counter + Len(msg.lines) - 1 <= MaxBpId
        /\ Room(1)
        /\ breakpoint_counter' = breakpoint_counter + Len(msg.lines)
        /\ breakpoints' = KeptBreakpoints(source_path)
                            \o StoredOfRequest(msg, actual_path, breakpoint_info)
        /\ Send(<<response>>)

\* process_message(SetBreakpointsRequest), as the delivery thread runs it when
\* no other thread touches the registry meanwhile.
\* msg: [seq, source_path, source_modified, lines].
SetBreakpoints(msg) ==
    /\ tpc = "recv"
    /\ SetBreakpointsEffect(msg, TableRead(msg))
    /\ UNCHANGED <<source_info, debug_config, latchVars, recvVars, transVars,
                   stratVars, pcShut, idVars, rs, obsVars, pcWait>>

\* The same handler as two steps of the delivery thread, other threads running
\* in between: first the path is translated and the table looked up (lines
\* 682-693). The local holds None or a reference to the table, a list that
\* register_path_breakpoint changes in place.
SetBreakpointsRead(msg) ==
    /\ tpc = "recv"
    /\ tmsg' = msg
    /\ tinfo' = IF TableRead(msg) = NoTable THEN "None" ELSE "list"
    /\ tpc' = "bp_read"
    /\ UNCHANGED <<regVars, queueVars, latchVars, recvVars, tstrat, stratVars,
                   pcShut, pcWait, idVars, rs, obsVars>>

\* ... then the rest of the handler, from line 697.
SetBreakpointsStore ==
    /\ tpc = "bp_read"
    /\ SetBreakpointsEffect(tmsg, IF tinfo = "None" THEN NoTable ELSE TableRead(tmsg))
    /\ tmsg' = NoMsg
    /\ tinfo' = "unset"
    /\ tpc' = "recv"
    /\ UNCHANGED <<source_info, debug_config, latchVars, recvVars, tstrat,
                   stratVars, pcShut, pcWait, idVars, rs, obsVars>>

\* A comparison that misses a change of the verified flag.
BreakpointChangedRangeOnly(stored, resolved) ==
    \/ stored.line # resolved.line
    \/ stored.end_line # resolved.end_line

\* The test of lines 476-480: the stored state differs from the resolution.
BreakpointChanged(stored, resolved) ==
    \/ stored.verified # resolved.verified
    \/ stored.line # resolved.line
    \/ stored.end_line # resolved.end_line

\* A registration that leaves every stored breakpoint as it was.
ReresolvedNever(b, path, file_lines) == b

\* One stored breakpoint after register_path_breakpoint's loop body.
Reresolved(b, path, file_lines) ==
    IF b.actual_path # path THEN b
    ELSE LET resolved == RegisterResolve(file_lines, b.sb_line)
         IN  IF BreakpointChanged(b.bp, resolved)
             THEN [b EXCEPT !.bp = [id |-> b.id] @@ resolved]
             ELSE b

\* register_path_breakpoint(path, line, bp_type), called by the runtime.
RegisterLine(path, line, bp_type) ==
    LET file_lines == RegisteredTable(source_info, path, line, bp_type)
        after == [i \in 1..Len(breakpoints) |->
                    Reresolved(breakpoints[i], path, file_lines)]
        changed == SelectSeq(after, LAMBDA b :
                       \E i \in 1..Len(breakpoints) :
                           breakpoints[i].id = b.id /\ breakpoints[i] # b)
        events == [i \in 1..Len(changed) |->
                    [kind |-> "BreakpointEvent", reason |-> "changed",
                     breakpoint |-> changed[i].bp]]
    IN  /\ source_info' = [q \in DOMAIN source_info \cup {path} |->
                             IF q = path THEN file_lines ELSE source_info[q]]
        /\ Room(Len(events))
        /\ breakpoints' = after
        /\ Send(events)
        /\ UNCHANGED <<breakpoint_counter, debug_config, latchVars, recvVars,
                       transVars, stratVars, pcShut, idVars, rs, obsVars, pcWait>>

\* A lookup that never tests _send_queue_active.
LookupAllowedAlways == TRUE

\* get_breakpoint's first test (lines 324-326).
LookupAllowed == send_queue_active

\* b matches (path, line): the condition of lines 329-333.
Matches(b, path, line) ==
    /\ b.actual_path = path
    /\ (b.bp.line = None \/ b.bp.line <= line)
    /\ (b.bp.end_line = None \/ b.bp.end_line >= line)

\* get_breakpoint(path, line): the id of the breakpoint returned, 0 for None.
get_breakpoint(path, line) ==
    IF ~LookupAllowed THEN 0
    ELSE IF \E i \in 1..Len(breakpoints) : Matches(breakpoints[i], path, line)
    THEN LET first == CHOOSE i \in 1..Len(breakpoints) :
                        /\ Matches(breakpoints[i], path, line)
                        /\ \A j \in 1..(i - 1) : ~Matches(breakpoints[j], path, line)
         IN  breakpoints[first].id
    ELSE 0

\* process_message(OutputEvent): the configuration replaces the current one.
SetDebugConfig(path_mappings) ==
    /\ tpc = "recv"
    /\ debug_config' = path_mappings
    /\ UNCHANGED <<source_info, breakpoints, breakpoint_counter, queueVars,
                   latchVars, recvVars, transVars, stratVars, pcShut, idVars, rs,
                   obsVars, pcWait>>

----------------------------------------------------------------------------
(* The background task, _recv_task (lines 511-622). *)

\* start(host, port, mode): the background thread is started.
Start(m) ==
    /\ pcRecv = "idle"
    /\ mode' = m
    /\ pcRecv' = "enter"
    /\ UNCHANGED <<regVars, queueVars, latchVars, resp, stopTo, pidFile, transVars,
                   stratVars, pcShut, idVars, rs, obsVars, pcWait>>

\* A task that writes the discovery file in either mode.
FileAfterEnterAlways == TRUE

\* if isinstance(mp_queue, ServerMPQueue): ... proc_pid_file.write_text(proc_json)
\* (lines 554-566): whether the discovery file exists after it.
FileAfterEnter == IF mode = "listen" THEN TRUE ELSE pidFile

\* with queue_type(**queue_kwargs) as mp_queue: the socket is made (and bound,
\* in listen mode, where the discovery file is then written, lines 553-572).
RecvEnter ==
    /\ pcRecv = "enter"
    /\ pidFile' = FileAfterEnter
    /\ pcRecv' = "start"
    /\ UNCHANGED <<regVars, queueVars, latchVars, mode, resp, stopTo, transVars,
                   stratVars, pcShut, idVars, rs, obsVars, pcWait>>

\* queue_type(**queue_kwargs) or its __enter__ raises (the address cannot be
\* bound): the with block is not entered, nothing is written, and the except
\* clause of line 596 leads to the finally of line 599.
RecvEnterError ==
    /\ pcRecv = "enter"
    /\ pcRecv' = "finally"
    /\ UNCHANGED <<regVars, queueVars, latchVars, mode, resp, stopTo, pidFile,
                   transVars, stratVars, pcShut, idVars, rs, obsVars, pcWait>>

\* mp_queue.start() returns: a peer was accepted (listen) or reached (connect),
\* and the transport's delivery thread runs.
PeerConnects ==
    /\ pcRecv = "start"
    /\ ~cancelled
    /\ session < MaxSessions
    /\ session' = session + 1
    /\ tpc' = "made"
    /\ pcRecv' = "connected"
    /\ UNCHANGED <<regVars, queueVars, latchVars, mode, resp, stopTo, pidFile, tmsg,
                   tstrat, stratVars, pcShut, idVars, rs, sessionOpen, sent,
                   cfgDoneIn, ended, tinfo, pcWait>>

\* mp_queue.start() raises CancelledError: the with block exits and the
\* except clause of line 593 leads to the finally of line 599.
RecvStartCancelled ==
    /\ pcRecv = "start"
    /\ cancelled
    /\ pcRecv' = "stop"
    /\ stopTo' = "finally"
    /\ UNCHANGED <<regVars, queueVars, latchVars, mode, resp, pidFile, transVars,
                   stratVars, pcShut, idVars, rs, obsVars, pcWait>>

\* mp_queue.start() raises another exception (the peer cannot be reached, the
\* TLS handshake fails): the except clause of line 596, then the finally.
RecvStartError ==
    /\ pcRecv = "start"
    /\ pcRecv' = "stop"
    /\ stopTo' = "finally"
    /\ UNCHANGED <<regVars, queueVars, latchVars, mode, resp, pidFile, transVars,
                   stratVars, pcShut, idVars, rs, obsVars, pcWait>>

\* self._da_connected.set() (line 576)
RecvConnected ==
    /\ pcRecv = "connected"
    /\ da_connected' = TRUE
    /\ pcRecv' = "get"
    /\ UNCHANGED <<regVars, queueVars, send_queue_active, configuration_done,
                   cancelled, mode, resp, stopTo, pidFile, transVars, stratVars,
                   pcShut, idVars, rs, obsVars, pcWait>>

\* resp = self._send_queue.get(); a falsy item (None) breaks out of the loop
\* after task_done() (lines 579-585).
RecvGet ==
    /\ pcRecv = "get"
    /\ send_queue # <<>>
    /\ send_queue' = Tail(send_queue)
    /\ IF Head(send_queue).msg.kind = "None"
       THEN /\ unfinished' = unfinished - 1
            /\ resp' = NoMsg
            /\ pcRecv' = "break"
       ELSE /\ unfinished' = unfinished
            /\ resp' = [kind |-> Head(send_queue).msg.kind,
                         sess |-> Head(send_queue).sess]
            /\ pcRecv' = "send"
    /\ UNCHANGED <<regVars, latchVars, mode, stopTo, pidFile, transVars, stratVars,
                   pcShut, idVars, rs, obsVars, pcWait>>

\* mp_queue.send(resp) returns, then task_done().
RecvSendOk ==
    /\ pcRecv = "send"
    /\ sent' = [sess |-> resp.sess, session |-> session]
    /\ unfinished' = unfinished - 1
    /\ resp' = NoMsg
    /\ pcRecv' = "get"
    /\ UNCHANGED <<regVars, send_queue, latchVars, mode, stopTo, pidFile, transVars,
                   stratVars, pcShut, idVars, rs, session, sessionOpen, cfgDoneIn,
                   ended, pcWait>>

\* mp_queue.send(resp) raises: task_done() (line 585), _da_connected.clear()
\* (line 588), the with block exits, and the exception reaches line 596.
RecvSendError ==
    /\ pcRecv = "send"
    /\ unfinished' = unfinished - 1
    /\ resp' = NoMsg
    /\ da_connected' = FALSE
    /\ pcRecv' = "stop"
    /\ stopTo' = "finally"
    /\ UNCHANGED <<regVars, send_queue, send_queue_active, configuration_done,
                   cancelled, mode, pidFile, transVars, stratVars, pcShut, idVars,
                   rs, obsVars, pcWait>>

\* After the break: _da_connected.clear() (line 588), the with block exits, and
\* the loop ends in connect mode only (lines 590-591).
RecvBreak ==
    /\ pcRecv = "break"
    /\ da_connected' = FALSE
    /\ pcRecv' = "stop"
    /\ stopTo' = IF mode = "connect" THEN "finally" ELSE "enter"
    /\ UNCHANGED <<regVars, queueVars, send_queue_active, configuration_done,
                   cancelled, mode, resp, pidFile, transVars, stratVars, pcShut,
                   idVars, rs, obsVars, pcWait>>

\* The with block's exit returns once the transport's delivery thread has ended.
RecvStop ==
    /\ pcRecv = "stop"
    /\ tpc = "none"
    /\ pcRecv' = stopTo
    /\ stopTo' = "none"
    /\ UNCHANGED <<regVars, queueVars, latchVars, mode, resp, pidFile, transVars,
                   stratVars, pcShut, idVars, rs, obsVars, pcWait>>

\* A finally clause that empties the queue and leaves the flag set.
ActiveAfterFinallyKept == send_queue_active

\* self._send_queue_active = False (line 613)
ActiveAfterFinally == FALSE

\* if proc_pid_file.exists(): proc_pid_file.unlink(missing_ok=True) (lines
\* 600-601): whether the discovery file exists after it.
FileAfterFinally == FALSE

\* The finally of lines 599-613: the discovery file is removed, the queue is
\* emptied with a task_done() per item, and the queue is switched off.
RecvFinally ==
    /\ pcRecv = "finally"
    /\ pidFile' = FileAfterFinally
    /\ send_queue' = <<>>
    /\ unfinished' = unfinished - Len(send_queue)
    /\ send_queue_active' = ActiveAfterFinally
    /\ pcRecv' = "release"
    /\ UNCHANGED <<regVars, da_connected, configuration_done, cancelled, mode, resp,
                   stopTo, transVars, stratVars, pcShut, idVars, rs, obsVars, pcWait>>

\* A task end that tells no strategy.
EndedAfterReleaseNever == ended

\* with self._strategy_connected: if self._strategy: self._strategy.ended()
\* (lines 618-620), as the count of ended() calls after it.
EndedAfterRelease == IF strategy # 0 THEN ended + 1 ELSE ended

\* Lines 616-620: both events are set and the attached strategy is told.
RecvRelease ==
    /\ pcRecv = "release"
    /\ da_connected' = TRUE
    /\ configuration_done' = TRUE
    /\ ended' = EndedAfterRelease
    /\ pcRecv' = "done"
    /\ UNCHANGED <<regVars, queueVars, send_queue_active, cancelled, mode, resp,
                   stopTo, pidFile, transVars, stratVars, pcShut, idVars, rs,
                   session, sessionOpen, sent, cfgDoneIn, pcWait>>

----------------------------------------------------------------------------
(* The DAProtocol callbacks, run by the transport's delivery thread. *)

\* A callback that opens the session without switching the queue on.
ActiveAfterConnectionMadeKept == send_queue_active

\* self._debugger._send_queue_active = True (line 137)
ActiveAfterConnectionMade == TRUE

\* connection_made(): the first thing the delivery thread does.
ConnectionMade ==
    /\ tpc = "made"
    /\ send_queue_active' = ActiveAfterConnectionMade
    /\ sessionOpen' = TRUE
    /\ tpc' = "recv"
    /\ UNCHANGED <<regVars, queueVars, da_connected, configuration_done, cancelled,
                   recvVars, tmsg, tstrat, stratVars, pcShut, idVars, rs, session,
                   sent, cfgDoneIn, ended, tinfo, pcWait>>

\* connection_closed(exp): self._debugger.send(None), and the thread ends.
connection_closed ==
    /\ Send(<<[kind |-> "None"]>>)
    /\ sessionOpen' = FALSE
    /\ tpc' = "none"
    /\ UNCHANGED <<regVars, latchVars, recvVars, tmsg, tstrat, stratVars, pcShut,
                   idVars, rs, session, sent, cfgDoneIn, ended, tinfo, pcWait>>

\* The peer closes the connection, or the connection fails.
PeerCloses ==
    /\ tpc = "recv"
    /\ connection_closed

\* The delivery thread's receive is cancelled by the token, or the socket is
\* closed under it by the with block's exit.
TransportStopped ==
    /\ tpc = "recv"
    /\ cancelled \/ pcRecv = "stop"
    /\ connection_closed

\* process_message(ConfigurationDoneRequest) (lines 631-638)
ConfigurationDone(msg) ==
    /\ tpc = "recv"
    /\ Room(1)
    /\ Send(<<[kind |-> "ConfigurationDoneResponse", request_seq |-> msg.seq]>>)
    /\ configuration_done' = TRUE
    /\ cfgDoneIn' = cfgDoneIn \cup {session}
    /\ UNCHANGED <<regVars, send_queue_active, da_connected, cancelled, recvVars,
                   transVars, stratVars, pcShut, idVars, rs, session, sessionOpen,
                   sent, ended, pcWait>>

\* A request that needs the strategy arrives: the handler enters _get_strategy.
StrategyRequest(msg) ==
    /\ tpc = "recv"
    /\ tmsg' = msg
    /\ tpc' = "strategy"
    /\ UNCHANGED <<regVars, queueVars, latchVars, recvVars, tstrat, stratVars,
                   pcShut, idVars, rs, obsVars, tinfo, pcWait>>

\* A wait that is over whether or not a strategy is attached.
StrategyAvailableAlways == TRUE

\* The predicate of wait_for (line 508): self._strategy is not None.
StrategyAvailable == strategy # 0

\* _get_strategy returns once self._strategy is not None (lines 506-509).
GetStrategy ==
    /\ tpc = "strategy"
    /\ StrategyAvailable
    /\ tstrat' = strategy
    /\ tpc' = "call"
    /\ UNCHANGED <<regVars, queueVars, latchVars, recvVars, tmsg, stratVars, pcShut,
                   idVars, rs, obsVars, tinfo, pcWait>>

\* The handler calls the strategy's method and sends its response.
CallStrategy ==
    /\ tpc = "call"
    /\ Send(<<[kind |-> "Response", command |-> tmsg.command,
               request_seq |-> tmsg.seq]>>)
    /\ tmsg' = NoMsg
    /\ tstrat' = 0
    /\ tpc' = "recv"
    /\ UNCHANGED <<regVars, latchVars, recvVars, stratVars, pcShut, idVars, rs,
                   obsVars, tinfo, pcWait>>

\* An except clause that answers nothing.
ErrorResponsesNone(msg) == <<>>

\* What on_msg_received's except clause passes to send() (lines 117-126): an
\* ErrorResponse with the request's command and seq if msg is a dap.Request.
ErrorResponses(msg) ==
    IF msg.is_request
    THEN <<[kind |-> "ErrorResponse", command |-> msg.command,
            request_seq |-> msg.seq]>>
    ELSE <<>>

\* on_msg_received(msg) for a message whose handling raises at once: no handler
\* is registered for its type (process_message raises NotImplementedError, line
\* 629), or the handler fails. The exception is caught and the callback returns.
HandlerRaises(msg) ==
    /\ tpc = "recv"
    /\ Room(1)
    /\ Send(ErrorResponses(msg))
    /\ UNCHANGED <<regVars, latchVars, recvVars, transVars, stratVars, pcShut,
                   pcWait, idVars, rs, obsVars>>

\* The strategy's method raises: the handler sends no response of its own, and
\* on_msg_received's except clause answers.
CallStrategyRaises ==
    /\ tpc = "call"
    /\ Send(ErrorResponses(tmsg))
    /\ tmsg' = NoMsg
    /\ tstrat' = 0
    /\ tpc' = "recv"
    /\ UNCHANGED <<regVars, latchVars, recvVars, tinfo, stratVars, pcShut, pcWait,
                   idVars, rs, obsVars>>

----------------------------------------------------------------------------
(* Callers: with_strategy, send, shutdown. *)

\* with_strategy's entry: the strategy is published (lines 271-273).
StrategyAttach ==
    /\ pcStrat \in {"out", "left"}
    /\ strategy' = 1
    /\ pcStrat' = "check"
    /\ UNCHANGED <<regVars, queueVars, latchVars, recvVars, transVars, attachSess,
                   pcShut, idVars, rs, obsVars, pcWait>>

\* if self._da_connected.is_set(): (line 276)
StrategyCheck ==
    /\ pcStrat = "check"
    /\ pcStrat' = IF da_connected THEN "wait" ELSE "in"
    /\ attachSess' = IF da_connected /\ pcRecv \in {"get", "send"}
                     THEN session ELSE 0
    /\ UNCHANGED <<regVars, queueVars, latchVars, recvVars, transVars, strategy,
                   pcShut, idVars, rs, obsVars, pcWait>>

\* self._configuration_done.wait() returns (line 277)
StrategyProceed ==
    /\ pcStrat = "wait"
    /\ configuration_done
    /\ pcStrat' = "in"
    /\ UNCHANGED <<regVars, queueVars, latchVars, recvVars, transVars, strategy,
                   attachSess, pcShut, idVars, rs, obsVars, pcWait>>

\* with_strategy's exit (lines 281-284)
StrategyDetach ==
    /\ pcStrat = "in"
    /\ strategy' = 0
    /\ attachSess' = 0
    /\ pcStrat' = "left"
    /\ UNCHANGED <<regVars, queueVars, latchVars, recvVars, transVars, pcShut,
                   idVars, rs, obsVars, pcWait>>

\* wait_for_config_done(timeout=None) is called (lines 304-317).
WaitCall ==
    /\ pcWait = "idle"
    /\ pcWait' = "wait"
    /\ UNCHANGED <<regVars, queueVars, latchVars, recvVars, transVars, stratVars,
                   pcShut, idVars, rs, obsVars>>

\* A wait that returns whether or not the event is set.
WaitOverAlways == TRUE

\* self._da_connected.wait(timeout=timeout) is over (line 317): the event is set.
WaitOver == da_connected

\* wait_for_config_done returns.
WaitReturn ==
    /\ pcWait = "wait"
    /\ WaitOver
    /\ pcWait' = "returned"
    /\ UNCHANGED <<regVars, queueVars, latchVars, recvVars, transVars, stratVars,
                   pcShut, idVars, rs, obsVars>>

\* The runtime calls send(msg) with an event of its own.
RuntimeSend(msg) ==
    /\ Room(1)
    /\ Send(<<msg>>)
    /\ UNCHANGED <<regVars, latchVars, recvVars, transVars, stratVars, pcShut,
                   idVars, rs, obsVars, pcWait>>

\* shutdown() is called (line 383).
ShutdownCall ==
    /\ pcShut = "idle"
    /\ pcShut' = "join_queue"
    /\ UNCHANGED <<regVars, queueVars, latchVars, recvVars, transVars, stratVars,
                   idVars, rs, obsVars, pcWait>>

\* self._send_queue.join() returns; self._cancel_token.cancel() (lines 384-385)
ShutdownCancel ==
    /\ pcShut = "join_queue"
    /\ unfinished = 0
    /\ cancelled' = TRUE
    /\ pcShut' = "join_thread"
    /\ UNCHANGED <<regVars, queueVars, send_queue_active, da_connected,
                   configuration_done, recvVars, transVars, stratVars, idVars, rs,
                   obsVars, pcWait>>

\* self._recv_thread.join() returns, or there is no thread (lines 386-389).
ShutdownReturn ==
    /\ pcShut = "join_thread"
    /\ pcRecv \in {"idle", "done"}
    /\ pcShut' = "done"
    /\ UNCHANGED <<regVars, queueVars, latchVars, recvVars, transVars, stratVars,
                   idVars, rs, obsVars, pcWait>>

----------------------------------------------------------------------------
(* next_thread_id, next_stackframe_id, next_variable_id (lines 286-302). No
   lock is held: the read, the read of the += and its write are separate steps
   of the calling thread. *)

CounterValue(k) ==
    CASE k = "thread" -> thread_counter
      [] k = "stackframe" -> stackframe_counter
      [] k = "variable" -> variable_counter

\* An increment that holds a lock from the first read: it adds one to the
\* counter's current value, whatever the caller read.
IncrementedLocked(k, tmp) == CounterValue(k) + 1

\* What the += writes: one more than the value it read.
Incremented(k, tmp) == tmp + 1

\* tid = self._thread_counter
NextIdRead(c, k) ==
    /\ callers[c].pc = "idle"
    /\ CounterValue(k) <= MaxCounter
    /\ callers' = [callers EXCEPT ![c] =
                     [pc |-> "load", counter |-> k, id |-> CounterValue(k), tmp |-> 0]]
    /\ UNCHANGED <<regVars, queueVars, latchVars, recvVars, transVars, stratVars,
                   pcShut, thread_counter, stackframe_counter, variable_counter,
                   issued, reissued, rs, obsVars, pcWait>>

\* self._thread_counter += 1: the counter is read ...
NextIdLoad(c) ==
    /\ callers[c].pc = "load"
    /\ callers' = [callers EXCEPT ![c].pc = "store",
                                  ![c].tmp = CounterValue(callers[c].counter)]
    /\ UNCHANGED <<regVars, queueVars, latchVars, recvVars, transVars, stratVars,
                   pcShut, thread_counter, stackframe_counter, variable_counter,
                   issued, reissued, rs, obsVars, pcWait>>

\* ... and written, and the id read first is returned.
NextIdStore(c) ==
    LET k == callers[c].counter
        v == Incremented(k, callers[c].tmp)
        got == <<k, callers[c].id>>
    IN  /\ callers[c].pc = "store"
        /\ thread_counter' = IF k = "thread" THEN v ELSE thread_counter
        /\ stackframe_counter' = IF k = "stackframe" THEN v ELSE stackframe_counter
        /\ variable_counter' = IF k = "variable" THEN v ELSE variable_counter
        /\ issued' = issued \cup {got}
        /\ reissued' = IF got \in issued THEN reissued \cup {got} ELSE reissued
        /\ callers' = [callers EXCEPT ![c] =
                         [pc |-> "idle", counter |-> "none", id |-> 0, tmp |-> 0]]
        /\ UNCHANGED <<regVars, queueVars, latchVars, recvVars, transVars, stratVars,
                       pcShut, rs, obsVars, pcWait>>

----------------------------------------------------------------------------
(* The resolution functions applied to one table and one requested line. *)

\* The tables register_path_breakpoint builds from lines >= 0 and types 0, 1:
\* index 0 and the last index hold a type, the others a type or None.
Tables ==
    {T \in UNION {[1..n -> {0, 1, None}] : n \in 1..MaxTableLen} :
        T[1] # None /\ T[Len(T)] # None}

InitResolve ==
    /\ InitDebugger
    /\ rs \in {[T |-> T, line |-> l, out |-> NoMsg, pc |-> "ready"] :
                 T \in Tables, l \in 0..MaxResolveLine}

\* The set-breakpoints handler's resolution of rs.line against rs.T.
ResolveForRequest ==
    /\ rs.pc = "ready"
    /\ rs' = [rs EXCEPT !.out = SetBpResolve(rs.T, rs.line), !.pc = "request"]
    /\ UNCHANGED <<regVars, queueVars, latchVars, recvVars, transVars, stratVars,
                   pcShut, idVars, obsVars, pcWait>>

\* The two copies applied to one table and one requested line: rs.out is the
\* handler's result, rs.reg that of register_path_breakpoint.
InitCopies ==
    /\ InitDebugger
    /\ rs \in {[T |-> T, line |-> l, out |-> NoMsg, reg |-> NoMsg, pc |-> "ready"] :
                 T \in Tables, l \in 0..MaxResolveLine}

\* register_path_breakpoint's resolution of rs.line against rs.T.
ResolveForRegistration ==
    /\ rs.pc = "request"
    /\ rs' = [rs EXCEPT !.reg = RegisterResolve(rs.T, rs.line), !.pc = "both"]
    /\ UNCHANGED <<regVars, queueVars, latchVars, recvVars, transVars, stratVars,
                   pcShut, idVars, obsVars, pcWait>>

----------------------------------------------------------------------------
(* The path translations applied to one list of mappings and one client path. *)

PathChars == {"l", "r", "x"}
SeqsUpTo(S, n) == UNION {[1..k -> S] : k \in 0..n}
PathMappings ==
    {[local_root |-> lr, remote_root |-> rr] :
        lr \in SeqsUpTo(PathChars, MaxRootLen), rr \in SeqsUpTo(PathChars, MaxRootLen)}

InitPaths ==
    /\ InitDebugger
    /\ rs \in {[maps |-> ms, path |-> q, out |-> <<>>, back |-> <<>>, pc |-> "ready"] :
                 ms \in SeqsUpTo(PathMappings, MaxMappings),
                 q \in SeqsUpTo(PathChars, MaxPathLen)}

\* The set-breakpoints handler's translation of the client's path (lines 687-691).
TranslateForRequest ==
    /\ rs.pc = "ready"
    /\ rs' = [rs EXCEPT !.out = ActualPath(rs.maps, rs.path), !.pc = "translated"]
    /\ UNCHANGED <<regVars, queueVars, latchVars, recvVars, transVars, stratVars,
                   pcShut, pcWait, idVars, obsVars>>

\* convert_to_client_path applied to the translated path.
ConvertBack ==
    /\ rs.pc = "translated"
    /\ rs' = [rs EXCEPT !.back = convert_to_client_path(rs.maps, rs.out),
                        !.pc = "converted"]
    /\ UNCHANGED <<regVars, queueVars, latchVars, recvVars, transVars, stratVars,
                   pcShut, pcWait, idVars, obsVars>>

----------------------------------------------------------------------------
(* Inputs. *)

\* Paths as the runtime knows them, and as the client names them: with
\* Mapped configured the client's "la" is the runtime's "ra".
PathRA == <<"r", "a">>
PathLA == <<"l", "a">>
RuntimePaths == {PathRA}
ClientPaths == {PathLA, PathRA}
Mapped == <<[local_root |-> <<"l">>, remote_root |-> <<"r">>]>>
DebugConfigs == {<<>>, Mapped}

\* The lists of requested lines: at most two lines each.
LineLists ==
    {<<>>} \cup {<<l>> : l \in 1..MaxReqLine}
           \cup {<<l1, l2>> : l1 \in 1..MaxReqLine, l2 \in 1..MaxReqLine}

SetBreakpointsRequests ==
    {[seq |-> 1, source_path |-> p, source_modified |-> m, lines |-> ls] :
        p \in ClientPaths, m \in BOOLEAN, ls \in LineLists}

----------------------------------------------------------------------------
(* Specifications. *)

NextResolve == ResolveForRequest

SpecResolve == InitResolve /\ [][NextResolve]_vars

NextCopies == ResolveForRequest \/ ResolveForRegistration

SpecCopies == InitCopies /\ [][NextCopies]_vars

NextPaths == TranslateForRequest \/ ConvertBack

SpecPaths == InitPaths /\ [][NextPaths]_vars

NextIds ==
    \/ \E c \in Callers, k \in Counters : NextIdRead(c, k)
    \/ \E c \in Callers : NextIdLoad(c)
    \/ \E c \in Callers : NextIdStore(c)

SpecIds == Init /\ [][NextIds]_vars

\* Nothing is waiting in the outbound queue or being sent.
Drained == send_queue = <<>> /\ resp = NoMsg

\* The registry driven by one client session: the connection is made, and the
\* client's requests and the runtime's registrations arrive in any order, each
\* after the background task has sent what the one before it queued.
NextRegistry ==
    \/ Start("connect")
    \/ RecvEnter
    \/ PeerConnects
    \/ RecvConnected
    \/ ConnectionMade
    \/ RecvGet
    \/ RecvSendOk
    \/ Drained /\ \E msg \in SetBreakpointsRequests : SetBreakpoints(msg)
    \/ Drained /\ \E p \in RuntimePaths, l \in 0..MaxLine, t \in {Invalid, ValidStart} :
          RegisterLine(p, l, t)
    \/ Drained /\ \E c \in DebugConfigs : SetDebugConfig(c)

SpecRegistry == Init /\ [][NextRegistry]_vars

\* The registry under requests of unmodified sources and registrations alone:
\* no path mapping is set, so client path "la" names a file of its own.
NextReresolve ==
    \/ Start("connect")
    \/ RecvEnter
    \/ PeerConnects
    \/ RecvConnected
    \/ ConnectionMade
    \/ RecvGet
    \/ RecvSendOk
    \/ Drained /\ \E msg \in SetBreakpointsRequests :
          ~msg.source_modified /\ SetBreakpoints(msg)
    \/ Drained /\ \E p \in RuntimePaths, l \in 0..MaxLine, t \in {Invalid, ValidStart} :
          RegisterLine(p, l, t)

SpecReresolve == Init /\ [][NextReresolve]_vars

\* The registry under every request and either path mapping, the runtime
\* registering valid starts only.
NextRequests ==
    \/ Start("connect")
    \/ RecvEnter
    \/ PeerConnects
    \/ RecvConnected
    \/ ConnectionMade
    \/ RecvGet
    \/ RecvSendOk
    \/ Drained /\ \E msg \in SetBreakpointsRequests : SetBreakpoints(msg)
    \/ Drained /\ \E p \in RuntimePaths, l \in 0..MaxLine : RegisterLine(p, l, ValidStart)
    \/ Drained /\ \E c \in DebugConfigs : SetDebugConfig(c)

SpecRequests == Init /\ [][NextRequests]_vars

\* The registry with the runtime's thread and the delivery thread running at
\* once: a registration can fall between the handler's lookup of the table and
\* the rest of the handler.
NextRace ==
    \/ Start("connect")
    \/ RecvEnter
    \/ PeerConnects
    \/ RecvConnected
    \/ ConnectionMade
    \/ RecvGet
    \/ RecvSendOk
    \/ Drained /\ \E ls \in LineLists :
          SetBreakpointsRead([seq |-> 1, source_path |-> PathRA,
                              source_modified |-> FALSE, lines |-> ls])
    \/ SetBreakpointsStore
    \/ \E l \in 0..MaxLine, t \in {Invalid, ValidStart} : RegisterLine(PathRA, l, t)

SpecRace == Init /\ [][NextRace]_vars

\* What the peer and the runtime do in the models of the connection: one
\* set-breakpoints request, one registration that verifies it, configuration-done,
\* one request that needs the strategy, and an event the runtime sends itself.
ConnBreakpointsRequest ==
    [seq |-> 1, source_path |-> PathRA, source_modified |-> FALSE, lines |-> <<1>>]
ConnConfigurationDone == [seq |-> 2]
ConnThreadsRequest == [is_request |-> TRUE, command |-> "threads", seq |-> 3]
\* Messages no handler is registered for: a request and an event.
UnhandledMessages ==
    {[is_request |-> TRUE, command |-> "unknown", seq |-> 4],
     [is_request |-> FALSE, command |-> "none", seq |-> 5]}
ConnStoppedEvent == [kind |-> "StoppedEvent"]

\* The callers and the peer add to the queue while fewer than MaxBacklog items wait.
Backlog == Len(send_queue) < MaxBacklog

\* The steps the background task and the delivery thread take by themselves.
LifecycleStep ==
    \/ RecvEnter
    \/ RecvStartCancelled
    \/ RecvConnected
    \/ RecvGet
    \/ RecvSendOk
    \/ RecvBreak
    \/ RecvStop
    \/ RecvFinally
    \/ RecvRelease
    \/ ConnectionMade
    \/ TransportStopped

\* The steps that are the peer's or the network's choice.
PeerStep ==
    \/ \E m \in {"connect", "listen"} : Start(m)
    \/ PeerConnects
    \/ RecvStartError
    \/ RecvSendError
    \/ PeerCloses

\* The outbound queue over the sessions of one runtime, with shutdown().
NextQueue ==
    \/ LifecycleStep
    \/ PeerStep
    \/ Backlog /\ SetBreakpoints(ConnBreakpointsRequest)
    \/ Backlog /\ RegisterLine(PathRA, 1, ValidStart)
    \/ Backlog /\ RuntimeSend(ConnStoppedEvent)
    \/ ShutdownCall
    \/ ShutdownCancel
    \/ ShutdownReturn

SpecQueue == Init /\ [][NextQueue]_vars

\* The background task over the sessions of one runtime, a bind that fails
\* included.
NextDiscovery ==
    \/ LifecycleStep
    \/ PeerStep
    \/ RecvEnterError
    \/ Backlog /\ RuntimeSend(ConnStoppedEvent)
    \/ ShutdownCall
    \/ ShutdownCancel
    \/ ShutdownReturn

SpecDiscovery == Init /\ [][NextDiscovery]_vars

\* Every thread of the program that can take a step eventually takes one, and a
\* send the transport can complete completes; the peer and the callers owe
\* nothing.
LifecycleFair ==
    /\ WF_vars(RecvEnter) /\ WF_vars(RecvStartCancelled) /\ WF_vars(RecvConnected)
    /\ WF_vars(RecvGet) /\ WF_vars(RecvSendOk) /\ WF_vars(RecvBreak)
    /\ WF_vars(RecvStop) /\ WF_vars(RecvFinally) /\ WF_vars(RecvRelease)
    /\ WF_vars(ConnectionMade) /\ WF_vars(TransportStopped)

FairQueue ==
    /\ SpecQueue
    /\ LifecycleFair
    /\ WF_vars(ShutdownCancel) /\ WF_vars(ShutdownReturn)

\* The strategy handoff over the sessions of one runtime: the runtime attaches
\* and detaches, the client sends configuration-done, a thread waits in
\* wait_for_config_done.
NextStrategy ==
    \/ LifecycleStep
    \/ PeerStep
    \/ Backlog /\ ConfigurationDone(ConnConfigurationDone)
    \/ StrategyAttach
    \/ StrategyCheck
    \/ StrategyProceed
    \/ StrategyDetach
    \/ WaitCall
    \/ WaitReturn
    \/ ShutdownCall
    \/ ShutdownCancel
    \/ ShutdownReturn

SpecStrategy == Init /\ [][NextStrategy]_vars

\* The strategy handoff with every thread of the program taking the steps it
\* can: the background task, the delivery thread, a caller whose wait is over. The peer, and callers entering or leaving a call, owe nothing.
FairStrategy ==
    /\ SpecStrategy
    /\ LifecycleFair
    /\ WF_vars(StrategyProceed) /\ WF_vars(WaitReturn)

\* The dispatch of the client's messages over the sessions of one runtime:
\* requests that need the strategy, messages whose handling raises, and the
\* runtime attaching and detaching.
NextDispatch ==
    \/ LifecycleStep
    \/ PeerStep
    \/ Backlog /\ StrategyRequest(ConnThreadsRequest)
    \/ Backlog /\ \E msg \in UnhandledMessages : HandlerRaises(msg)
    \/ GetStrategy
    \/ CallStrategy
    \/ CallStrategyRaises
    \/ StrategyAttach
    \/ StrategyCheck
    \/ StrategyProceed
    \/ StrategyDetach
    \/ ShutdownCall
    \/ ShutdownCancel
    \/ ShutdownReturn

SpecDispatch == Init /\ [][NextDispatch]_vars

\* The dispatch with every thread of the program taking the steps it can.
FairDispatch ==
    /\ SpecDispatch
    /\ LifecycleFair
    /\ WF_vars(GetStrategy) /\ WF_vars(CallStrategy)

----------------------------------------------------------------------------
(* The resolution algorithm as the specification words it, for a table T
   (T[i + 1] is the entry of line i) and a requested line L. *)

\* The greatest index <= min(L, len(T) - 1) whose entry is not continuation.
SpecStart(T, L) ==
    LET candidates == {i \in 0..Min(L, Len(T) - 1) : T[i + 1] # Continuation}
    IN  CHOOSE i \in candidates : \A j \in candidates : j <= i

\* The smallest index > start whose entry is not continuation, or len(T).
SpecEnd(T, L) ==
    LET start == SpecStart(T, L)
        candidates == {i \in (start + 1)..(Len(T) - 1) : T[i + 1] # Continuation}
                        \cup {Len(T)}
    IN  CHOOSE i \in candidates : \A j \in candidates : i <= j

\* The lines a reported breakpoint covers: line..end_line.
Covered(bp) == bp.line..bp.end_line

\* The table after the registrations 0 -> invalid, 3 -> valid-start, 5 -> invalid.
ExampleTable ==
    ExtendTable(ExtendTable(ExtendTable(<<0>>, 0, Invalid), 3, ValidStart), 5, Invalid)

----------------------------------------------------------------------------
(* Claims. *)

\* C1: the breakpoint the set-breakpoints handler reports for a requested line
\* L >= 0 against a table T covers exactly the lines start..end-1, start being
\* the greatest index <= min(L, len(T) - 1) that is not continuation and end the
\* smallest index > start that is not continuation (len(T) if there is none),
\* and it is verified exactly when T[start] is valid-start. On the table of the
\* registrations 0 -> invalid, 3 -> valid-start, 5 -> invalid: line 1 gives
\* [0, 3) unverified, lines 3 and 4 give [3, 5) verified, lines 6 and up give
\* [5, len(T)) unverified.
C1_Resolution ==
    rs.pc = "request" =>
        /\ Covered(rs.out) = SpecStart(rs.T, rs.line)..(SpecEnd(rs.T, rs.line) - 1)
        /\ rs.out.line = SpecStart(rs.T, rs.line)
        /\ rs.out.verified = (rs.T[SpecStart(rs.T, rs.line) + 1] = ValidStart)
        /\ rs.T = ExampleTable =>
            /\ rs.line = 1 => Covered(rs.out) = 0..2 /\ ~rs.out.verified
            /\ rs.line \in {3, 4} => Covered(rs.out) = 3..4 /\ rs.out.verified
            /\ rs.line >= 6 => Covered(rs.out) = 5..(Len(rs.T) - 1) /\ ~rs.out.verified

\* C1's case: line 4 has been resolved against the example table, to [3, 5).
C1_Witness ==
    /\ rs.pc = "request"
    /\ rs.T = ExampleTable
    /\ rs.line = 4
    /\ rs.out.line = 3
    /\ rs.out.end_line = 4
    /\ rs.out.verified

\* The background task is not inside a session: it has not started, it is about
\* to make or is waiting on the socket of the next session, or it has ended.
BetweenSessions ==
    /\ ~sessionOpen
    /\ tpc = "none"
    /\ pcRecv \in {"idle", "enter", "start", "done"}

\* C2: while no transport session is open (before the first session, after the
\* background task has ended, and in listen mode between the end of one session
\* and the start of the next) lookup returns nothing, also for the path and the
\* lines of a stored breakpoint.
C2_LookupNothingWithoutSession ==
    BetweenSessions =>
        \A i \in 1..Len(breakpoints) : \A l \in 0..MaxLine :
            get_breakpoint(breakpoints[i].actual_path, l) = 0

\* C2's case: in listen mode the first session has ended, the task waits for the
\* next peer, and a breakpoint stored in that session matches its own line.
C2_Witness ==
    /\ BetweenSessions
    /\ mode = "listen"
    /\ pcRecv = "start"
    /\ session >= 1
    /\ \E i \in 1..Len(breakpoints) :
          Matches(breakpoints[i], breakpoints[i].actual_path, breakpoints[i].sb_line)

\* C3: every call of shutdown() returns in the end, whatever the queue holds and
\* wherever the background task is.
C3_ShutdownReturns == (pcShut = "join_queue") ~> (pcShut = "done")

\* C3's case: shutdown() waits on the queue's join while the task, in listen
\* mode, waits for the next peer and an item is still queued.
C3_Witness ==
    /\ pcShut = "join_queue"
    /\ mode = "listen"
    /\ pcRecv = "start"
    /\ session >= 1
    /\ unfinished > 0
    /\ send_queue # <<>>

\* C4: a message is transmitted only to the peer of the session that was open
\* when send() took it: what is passed to send() outside a session, or is still
\* queued when a session ends, reaches no peer.
C4_SentInOwnSession == sent.session # 0 => sent.sess = sent.session

\* C4's case: a message taken by send() after the first session closed and
\* before the second began has been transmitted to the peer of the second.
C4_Witness == sent.session = 2 /\ sent.sess = 0 - 1

\* C5: no id of any counter is handed out twice, whatever the interleaving of
\* the callers of next_thread_id, next_stackframe_id and next_variable_id.
C5_NeverReissued == reissued = {}

\* C5's case: two callers have each been handed the same thread id.
C5_Witness == <<"thread", 2>> \in reissued

\* C6: a caller of with_strategy that found a session connected is past the
\* attach point only if configuration-done arrived in that session (or a later
\* one), or the background task has ended.
C6_AttachWaitsForThisSession ==
    (pcStrat = "in" /\ attachSess # 0 /\ pcRecv # "done") =>
        \E s \in cfgDoneIn : s >= attachSess

\* C6's case: the caller attached in the second session and went on, the only
\* configuration-done having arrived in the first.
C6_Witness ==
    /\ pcStrat = "in"
    /\ attachSess = 2
    /\ cfgDoneIn = {1}
    /\ pcRecv \in {"get", "send"}

\* The message the step has put last in the outbound queue.
LastQueued == send_queue'[Len(send_queue')].msg

\* The ids of the breakpoints stored before the step, and after it.
StoredIds == {breakpoints[i].id : i \in 1..Len(breakpoints)}
StoredIdsAfter == {breakpoints'[i].id : i \in 1..Len(breakpoints')}

\* The request names a path Ansible has no table for, and is not of a modified
\* source.
NotLoadedRequest(msg) ==
    /\ ~msg.source_modified
    /\ ActualPath(debug_config, msg.source_path) \notin DOMAIN source_info

\* The step has queued a "changed" event that reports breakpoint b verified,
\* with the range the resolution algorithm gives for line L on table T.
ChangedEventQueued(b, T, L) ==
    \E k \in (Len(send_queue) + 1)..Len(send_queue') :
        LET e == send_queue'[k].msg
        IN  /\ e.kind = "BreakpointEvent"
            /\ e.reason = "changed"
            /\ e.breakpoint.id = b.id
            /\ e.breakpoint.verified
            /\ Covered(e.breakpoint) = SpecStart(T, L)..(SpecEnd(T, L) - 1)

\* C7: a set-breakpoints request for a path without a table returns every
\* breakpoint unverified with the "not loaded" message and stores it; a later
\* registerLine(path, L, valid-start) for the requested line L of such a
\* breakpoint, made while the queue is active, queues a "changed" event for it
\* with verified = true and the range the resolution gives for L on the new table.
C7_NotLoadedThenVerified ==
    [][ /\ \A msg \in SetBreakpointsRequests :
            (SetBreakpoints(msg) /\ NotLoadedRequest(msg)) =>
                /\ LastQueued.kind = "SetBreakpointsResponse"
                /\ Len(LastQueued.breakpoints) = Len(msg.lines)
                /\ \A i \in 1..Len(msg.lines) :
                      /\ ~LastQueued.breakpoints[i].verified
                      /\ LastQueued.breakpoints[i].message = MsgNotLoaded
                      /\ \E j \in 1..Len(breakpoints') :
                            /\ breakpoints'[j].bp = LastQueued.breakpoints[i]
                            /\ breakpoints'[j].sb_line = msg.lines[i]
        /\ \A p \in RuntimePaths, L \in 0..MaxLine :
            (RegisterLine(p, L, ValidStart) /\ send_queue_active) =>
                \A i \in 1..Len(breakpoints) :
                    ( /\ breakpoints[i].actual_path = p
                      /\ breakpoints[i].sb_line = L
                      /\ breakpoints[i].bp.message = MsgNotLoaded ) =>
                        ChangedEventQueued(breakpoints[i], source_info'[p], L)
      ]_vars

\* C7's case: a "changed" event that reports a stored breakpoint verified at the
\* line the client asked for waits in the queue.
C7_Witness ==
    /\ send_queue # <<>>
    /\ Head(send_queue).msg.kind = "BreakpointEvent"
    /\ Head(send_queue).msg.breakpoint.verified
    /\ \E i \in 1..Len(breakpoints) :
          /\ breakpoints[i].bp = Head(send_queue).msg.breakpoint
          /\ breakpoints[i].bp.line = breakpoints[i].sb_line

\* C8: a set-breakpoints request with source_modified = true returns every
\* breakpoint unverified with the "modified source" message and stores none of
\* them, and lookup returns none of them for any line then or later: an id
\* stored by a step was stored before it or is new, and ids only grow.
C8_ModifiedNotStored ==
    [][ /\ \A msg \in SetBreakpointsRequests :
            (SetBreakpoints(msg) /\ msg.source_modified) =>
                /\ LastQueued.kind = "SetBreakpointsResponse"
                /\ Len(LastQueued.breakpoints) = Len(msg.lines)
                /\ \A i \in 1..Len(msg.lines) :
                      /\ ~LastQueued.breakpoints[i].verified
                      /\ LastQueued.breakpoints[i].message = MsgModified
                      /\ LastQueued.breakpoints[i].id \notin StoredIds
                      /\ LastQueued.breakpoints[i].id \notin StoredIdsAfter
                      /\ LastQueued.breakpoints[i].id < breakpoint_counter'
                      /\ \A p \in RuntimePaths, l \in 0..(MaxLine + 1) :
                            get_breakpoint(p, l)' # LastQueued.breakpoints[i].id
        /\ breakpoint_counter' >= breakpoint_counter
        /\ \A id \in StoredIdsAfter : id \in StoredIds \/ id >= breakpoint_counter
        /\ \A p \in RuntimePaths, l \in 0..(MaxLine + 1) :
              get_breakpoint(p, l)' \in StoredIdsAfter \cup {0}
      ]_vars

\* C8's case: the response to a request of a modified source waits in the queue
\* while the registry holds a breakpoint of another request for the same path.
C8_Witness ==
    /\ send_queue # <<>>
    /\ Head(send_queue).msg.kind = "SetBreakpointsResponse"
    /\ Head(send_queue).msg.breakpoints # <<>>
    /\ Head(send_queue).msg.breakpoints[1].message = MsgModified
    /\ breakpoints # <<>>
    /\ \A i \in 1..Len(breakpoints) :
          breakpoints[i].id # Head(send_queue).msg.breakpoints[1].id

\* C9: a set-breakpoints request for client path P removes every breakpoint
\* stored under client path P and leaves those of every other client path as
\* they were, in the same order, also when both map to the same runtime path.
C9_OnlyRequestedPathReplaced ==
    [][ \A msg \in SetBreakpointsRequests :
            SetBreakpoints(msg) =>
                /\ \A i \in 1..Len(breakpoints) :
                      breakpoints[i].source_path = msg.source_path =>
                          breakpoints[i].id \notin StoredIdsAfter
                /\ \A i \in 1..Len(breakpoints) :
                      breakpoints[i].source_path # msg.source_path =>
                          \E j \in 1..Len(breakpoints') :
                              breakpoints'[j] = breakpoints[i]
                /\ \A j \in 1..Len(breakpoints') :
                      breakpoints'[j].source_path # msg.source_path =>
                          \E i \in 1..Len(breakpoints) :
                              breakpoints[i] = breakpoints'[j]
      ]_vars

\* C9's case: a breakpoint stored under client path "ra" is still there after a
\* later request for client path "la", which maps to the same runtime path.
C9_Witness ==
    /\ Len(breakpoints) = 2
    /\ breakpoints[1].source_path = PathRA
    /\ breakpoints[2].source_path = PathLA
    /\ breakpoints[1].actual_path = breakpoints[2].actual_path
    /\ breakpoints[1].id < breakpoints[2].id

\* Line l is one that the stored breakpoint b stands for: a line of its resolved
\* range, or, while b is not resolved, the line the client asked for.
InResolvedRange(b, l) ==
    IF b.bp.line # None /\ b.bp.end_line # None
    THEN l \in Covered(b.bp)
    ELSE l = b.sb_line

\* C10: while the queue is active, lookup(path, line) returns the first stored
\* breakpoint whose runtime path is path and whose range holds line, and
\* nothing when there is none; a breakpoint not resolved against any table is
\* not returned for other lines.
C10_LookupInsideRange ==
    LookupAllowed =>
        \A p \in RuntimePaths, l \in 0..(MaxLine + 1) :
            LET inside == {i \in 1..Len(breakpoints) :
                              /\ breakpoints[i].actual_path = p
                              /\ InResolvedRange(breakpoints[i], l)}
            IN  IF inside = {}
                THEN get_breakpoint(p, l) = 0
                ELSE get_breakpoint(p, l) =
                        breakpoints[CHOOSE i \in inside : \A j \in inside : i <= j].id

\* C10's case: lookup returns a breakpoint that is not resolved ("not loaded")
\* for a line after the one the client asked for.
C10_Witness ==
    /\ LookupAllowed
    /\ \E i \in 1..Len(breakpoints) :
          /\ breakpoints[i].bp.message = MsgNotLoaded
          /\ breakpoints[i].bp.end_line = None
          /\ get_breakpoint(breakpoints[i].actual_path, breakpoints[i].sb_line + 1)
                = breakpoints[i].id

\* C11: when the with_strategy scope exits, normally or through an exception,
\* the strategy's ended() is invoked.
C11_DetachCallsEnded == [][StrategyDetach => ended' = ended + 1]_vars

\* C11's case: the caller has left the with_strategy scope during a session and
\* ended() has never been called.
C11_Witness ==
    /\ pcStrat = "left"
    /\ strategy = 0
    /\ ended = 0
    /\ pcRecv = "get"

\* C12: once the background task is in its final finally clause it ends; at its
\* end both events are set, and stay set, so that every thread waiting for
\* either is released in the end; the strategy attached at that moment has its
\* ended() called once, and no other call of ended() is made by the task.
C12_TerminationReleases ==
    /\ [][RecvRelease =>
            /\ da_connected' /\ configuration_done'
            /\ ended' = ended + (IF strategy # 0 THEN 1 ELSE 0)]_vars
    /\ [](pcRecv = "done" => da_connected /\ configuration_done)
    /\ [](ended <= 1)
    /\ (pcRecv = "finally") ~> (pcRecv = "done")
    /\ (pcRecv = "finally" /\ pcWait = "wait") ~> (pcWait = "returned")
    /\ (pcRecv = "finally" /\ pcStrat = "wait") ~> (pcStrat = "in")

\* C12's case: the task has ended with a strategy attached, which was told once,
\* and the caller of wait_for_config_done, who was waiting, has returned with no
\* session ever connected.
C12_Witness ==
    /\ pcRecv = "done"
    /\ strategy # 0
    /\ ended = 1
    /\ pcWait = "returned"
    /\ session = 0

\* C13: in listen mode the background task leaves its accept/serve loop only
\* when cancelled: after a session that ended by the peer's close or by a
\* transport error it accepts the next peer.
C13_ListenLeavesOnlyWhenCancelled ==
    (mode = "listen" /\ (stopTo = "finally" \/ pcRecv \in {"finally", "release", "done"}))
        => cancelled

\* C13's case: a listen-mode task has ended after serving a session, and nobody
\* cancelled it.
C13_Witness ==
    /\ mode = "listen"
    /\ pcRecv = "done"
    /\ session >= 1
    /\ ~cancelled
    /\ pcShut = "idle"

\* The step has passed exactly the messages msgs to send(), in order: they are
\* queued behind what was queued if the queue is active, and dropped if not.
PassedToSend(msgs) ==
    /\ Len(send_queue') = Len(send_queue) + (IF send_queue_active THEN Len(msgs) ELSE 0)
    /\ \A i \in 1..Len(send_queue) : send_queue'[i] = send_queue[i]
    /\ send_queue_active =>
          \A i \in 1..Len(msgs) : send_queue'[Len(send_queue) + i].msg = msgs[i]

\* The one error response the specification asks for a failed request.
ErrorResponseFor(msg) ==
    [kind |-> "ErrorResponse", command |-> msg.command, request_seq |-> msg.seq]

\* C14: when handling a received message raises, also for want of a handler,
\* the delivery thread goes on receiving and the session stays as it was; one
\* error response with the request's command and seq is passed to send() if
\* the message is a request, and nothing if it is not.
C14_HandlerFailureAnswered ==
    [][ /\ \A msg \in UnhandledMessages :
            HandlerRaises(msg) =>
                /\ tpc' = "recv"
                /\ sessionOpen' = sessionOpen /\ pcRecv' = pcRecv
                /\ send_queue_active' = send_queue_active
                /\ PassedToSend(IF msg.is_request THEN <<ErrorResponseFor(msg)>>
                                ELSE <<>>)
        /\ CallStrategyRaises =>
                /\ tpc' = "recv"
                /\ sessionOpen' = sessionOpen /\ pcRecv' = pcRecv
                /\ send_queue_active' = send_queue_active
                /\ PassedToSend(<<ErrorResponseFor(tmsg)>>)
      ]_vars

\* C14's case: the error response to the request without a handler waits in the
\* queue, and the delivery thread is receiving in the open session.
C14_Witness ==
    /\ send_queue # <<>>
    /\ Head(send_queue).msg = [kind |-> "ErrorResponse", command |-> "unknown",
                               request_seq |-> 4]
    /\ tpc = "recv"
    /\ sessionOpen

\* Some mapping of the list rewrites the client path: its local_root is a prefix.
Rewritten(maps, path) ==
    \E i \in 1..Len(maps) : StartsWith(path, maps[i].local_root)

\* C15: for every list of path mappings and every client path the set-breakpoints
\* translation rewrites, convert_to_client_path gives the client path back.
C15_RoundTrip ==
    (rs.pc = "converted" /\ Rewritten(rs.maps, rs.path)) => rs.back = rs.path

\* C15's case: with the mappings l -> r and x -> r the client path "xl" was
\* translated to "rl" and converted back to "ll".
C15_Witness ==
    /\ rs.pc = "converted"
    /\ rs.maps = <<[local_root |-> <<"l">>, remote_root |-> <<"r">>],
                   [local_root |-> <<"x">>, remote_root |-> <<"r">>]>>
    /\ rs.path = <<"x", "l">>
    /\ rs.out = <<"r", "l">>
    /\ rs.back = <<"l", "l">>

\* C16: a request that needs the strategy, dispatched while none is attached,
\* waits: the delivery thread stays in _get_strategy and passes nothing to
\* send(). It leaves the wait only with a strategy attached, which it then calls,
\* and exactly one response with the request's seq is passed to send(). If a
\* strategy is attached and stays attached the request is answered in the end.
C16_StrategyRequestWaits ==
    /\ [][ /\ (tpc = "strategy" /\ strategy = 0) =>
                /\ tpc' = "strategy" /\ tmsg' = tmsg
                /\ Len(send_queue') <= Len(send_queue)
           /\ (tpc = "strategy" /\ tpc' # "strategy") =>
                /\ tpc' = "call" /\ tstrat' = strategy /\ tmsg' = tmsg
                /\ send_queue' = send_queue
           /\ (tpc = "call" /\ tpc' # "call") =>
                /\ tpc' = "recv"
                /\ \E k \in {"Response", "ErrorResponse"} :
                      PassedToSend(<<[kind |-> k, command |-> tmsg.command,
                                      request_seq |-> tmsg.seq]>>)
         ]_vars
    /\ (tpc = "strategy" /\ strategy # 0) ~> (tpc = "recv" \/ strategy = 0)

\* C16's case: the strategy is attached and its response to the threads request
\* waits in the queue.
C16_Witness ==
    /\ send_queue # <<>>
    /\ Head(send_queue).msg = [kind |-> "Response", command |-> "threads",
                               request_seq |-> 3]
    /\ strategy # 0
    /\ tpc = "recv"

\* C17: wait_for_config_done without a timeout returns only after the client
\* has sent configuration-done, or after the background task has ended; a
\* session having connected is not enough.
C17_WaitNeedsConfigurationDone ==
    pcWait = "returned" => (cfgDoneIn # {} \/ pcRecv = "done")

\* C17's case: wait_for_config_done has returned in an open session in which
\* no configuration-done has arrived, the background task still serving it.
C17_Witness ==
    /\ pcWait = "returned"
    /\ cfgDoneIn = {}
    /\ ~configuration_done
    /\ sessionOpen
    /\ pcRecv = "get"
    /\ session = 1

\* The stored breakpoint b carries the resolution of its requested line against
\* the table of its path.
CarriesResolution(b) ==
    b.bp = [id |-> b.id] @@ RegisterResolve(source_info[b.actual_path], b.sb_line)

\* C18: registrations and the set-breakpoints handler do not interleave: when
\* no handler is under way every stored breakpoint whose path has a table
\* carries the resolution of its requested line against that table, and none
\* is left "not loaded".
C18_RegistryConsistent ==
    tpc # "bp_read" =>
        \A i \in 1..Len(breakpoints) :
            breakpoints[i].actual_path \in DOMAIN source_info =>
                /\ breakpoints[i].bp.message # MsgNotLoaded
                /\ CarriesResolution(breakpoints[i])

\* C18's case: the handler and the registration are both over, the path has a
\* table with line 1 a valid start, and the breakpoint requested for line 1 is
\* stored as "not loaded".
C18_Witness ==
    /\ tpc = "recv"
    /\ PathRA \in DOMAIN source_info
    /\ source_info[PathRA] = <<Invalid, ValidStart>>
    /\ \E i \in 1..Len(breakpoints) :
          /\ breakpoints[i].actual_path = PathRA
          /\ breakpoints[i].sb_line = 1
          /\ breakpoints[i].bp.message = MsgNotLoaded

\* The step has queued a "changed" event for the breakpoint with this id.
EventQueuedFor(id) ==
    \E k \in (Len(send_queue) + 1)..Len(send_queue') :
        /\ send_queue'[k].msg.kind = "BreakpointEvent"
        /\ send_queue'[k].msg.reason = "changed"
        /\ send_queue'[k].msg.breakpoint = breakpoints'[CHOOSE i \in 1..Len(breakpoints') :
                                                           breakpoints'[i].id = id].bp

\* The verified flag or the range of the stored state s differs from those of r.
Differs(s, r) ==
    s.verified # r.verified \/ s.line # r.line \/ s.end_line # r.end_line

\* What C19 says of a step that is registerLine(p, l, t).
RegisterLineReresolves(p, l, t) ==
    /\ Len(breakpoints') = Len(breakpoints)
    /\ \A i \in 1..Len(breakpoints) :
          LET b == breakpoints[i]
              a == breakpoints'[i]
              r == RegisterResolve(source_info'[p], b.sb_line)
          IN  /\ a.id = b.id /\ a.actual_path = b.actual_path /\ a.sb_line = b.sb_line
              /\ b.actual_path = p =>
                    /\ ~Differs(a.bp, r)
                    /\ send_queue_active => (EventQueuedFor(b.id) <=> Differs(b.bp, r))
                    /\ ~Differs(b.bp, r) => a = b
              /\ b.actual_path # p =>
                    /\ a = b
                    /\ ~EventQueuedFor(b.id)
    /\ Len(send_queue') - Len(send_queue) =
          IF send_queue_active
          THEN Cardinality({i \in 1..Len(breakpoints) :
                   /\ breakpoints[i].actual_path = p
                   /\ Differs(breakpoints[i].bp,
                              RegisterResolve(source_info'[p], breakpoints[i].sb_line))})
          ELSE 0
    \* the same call made again at once: the table stays as it is, and no
    \* stored breakpoint of the path differs from its resolution against it
    /\ RegisteredTable(source_info', p, l, t) = source_info'[p]
    /\ \A i \in 1..Len(breakpoints') :
          breakpoints'[i].actual_path = p =>
              ~Differs(breakpoints'[i].bp,
                       RegisterResolve(RegisteredTable(source_info', p, l, t),
                                       breakpoints'[i].sb_line))

\* C19: registerLine(path, line, kind) re-resolves every stored breakpoint whose
\* runtime path is path and queues a "changed" event for it exactly when its
\* verified flag or its resolved range differs from the stored one; breakpoints
\* of other paths are neither changed nor reported; the same call repeated at
\* once leaves the table, the breakpoints and the queue as they are.
C19_RegisterLineReresolves ==
    [][ \A p \in RuntimePaths, l \in 0..MaxLine, t \in {Invalid, ValidStart} :
            RegisterLine(p, l, t) => RegisterLineReresolves(p, l, t) ]_vars

\* C19's case: a registration has changed one stored breakpoint of its path and
\* reported it, a breakpoint of another path is stored next to it, and the
\* table is one the same registration leaves as it is.
C19_Witness ==
    /\ Len(breakpoints) = 2
    /\ breakpoints[1].actual_path = PathLA
    /\ breakpoints[2].actual_path = PathRA
    /\ breakpoints[2].bp.verified
    /\ PathRA \in DOMAIN source_info
    /\ RegisteredTable(source_info, PathRA, 1, ValidStart) = source_info[PathRA]
    /\ Len(send_queue) > 0
    /\ send_queue[Len(send_queue)].msg.kind = "BreakpointEvent"
    /\ send_queue[Len(send_queue)].msg.breakpoint = breakpoints[2].bp

\* The table T is non-empty, its index 0 is not a continuation, and the
\* walk-back from any requested line 0..MaxResolveLine stops at an index >= 0.
TableWellFormed(T) ==
    /\ Len(T) >= 1
    /\ PyIndex(T, 0) # None
    /\ \A L \in 0..MaxResolveLine : WalkBack(T, Min(L, Len(T) - 1)) >= 0

\* A registration never shortens the table of its path.
TableNotShortened(p) ==
    p \in DOMAIN source_info => Len(source_info'[p]) >= Len(source_info[p])

\* What the code keeps of C20: registrations with line >= 0 and types 0, 1 leave
\* every table well formed and no shorter than before.
TablesStayWellFormed ==
    [][ \A p \in RuntimePaths, l \in 0..MaxLine, t \in {Invalid, ValidStart} :
            RegisterLine(p, l, t) =>
                /\ \A q \in DOMAIN source_info' : TableWellFormed(source_info'[q])
                /\ TableNotShortened(p) ]_vars

\* C20: after any registerLine calls with line >= 0 and kind invalid or
\* valid-start every table is non-empty, its index 0 holds invalid, its length
\* has not decreased, and the walk-back of the resolution stops at an index >= 0
\* for every requested line >= 0.
C20_IndexZeroInvalid ==
    [][ \A p \in RuntimePaths, l \in 0..MaxLine, t \in {Invalid, ValidStart} :
            RegisterLine(p, l, t) =>
                /\ \A q \in DOMAIN source_info' :
                      /\ TableWellFormed(source_info'[q])
                      /\ PyIndex(source_info'[q], 0) = Invalid
                /\ TableNotShortened(p) ]_vars

\* C20's case: index 0 of a table holds valid-start, and a stored breakpoint of
\* that path is verified at line 0.
C20_Witness ==
    /\ PathRA \in DOMAIN source_info
    /\ PyIndex(source_info[PathRA], 0) = ValidStart
    /\ \E i \in 1..Len(breakpoints) :
          /\ breakpoints[i].actual_path = PathRA
          /\ breakpoints[i].bp.verified
          /\ breakpoints[i].bp.line = 0

\* C21: the discovery file is written only in listen mode, by the step that
\* follows a successful bind, and never in connect mode; once the background
\* task has exited, whatever ended it, the file does not exist.
C21_DiscoveryFile ==
    /\ [](pidFile => (mode = "listen" /\ pcRecv # "idle"
                          /\ (pcRecv = "enter" => session >= 1)))
    /\ [](pcRecv \in {"release", "done"} => ~pidFile)
    /\ [][(~pidFile /\ pidFile') => (RecvEnter /\ mode = "listen")]_vars
    /\ [][RecvEnterError => pidFile' = pidFile]_vars

\* C21's case: a listen-mode task that has bound, written the file and served
\* a session has exited, and the file is gone.
C21_Witness ==
    /\ mode = "listen"
    /\ session >= 1
    /\ pcRecv = "done"
    /\ ~pidFile

\* The file is there while a listen-mode task waits for its second session.
C21_FileWritten ==
    /\ mode = "listen"
    /\ session = 1
    /\ pcRecv = "start"
    /\ pidFile

\* The stored breakpoint b agrees with the resolution of its requested line
\* against the table T.
AgreesWithTable(b, T) ==
    /\ b.bp.line = SpecStart(T, b.sb_line)
    /\ Covered(b.bp) = SpecStart(T, b.sb_line)..(SpecEnd(T, b.sb_line) - 1)
    /\ b.bp.verified = (T[SpecStart(T, b.sb_line) + 1] = ValidStart)

\* C22: with the registry's operations run one at a time, every stored
\* breakpoint whose runtime path has a table has the verified flag and the
\* range of the resolution of its requested line against that table, and every
\* stored breakpoint whose runtime path has no table is unverified with its
\* line the requested one.
C22_RegistryAgreesWithTables ==
    \A i \in 1..Len(breakpoints) :
        IF breakpoints[i].actual_path \in DOMAIN source_info
        THEN AgreesWithTable(breakpoints[i], source_info[breakpoints[i].actual_path])
        ELSE /\ ~breakpoints[i].bp.verified
             /\ breakpoints[i].bp.line = breakpoints[i].sb_line

\* C22's case: after a replacement of the path mapping the registry holds a
\* breakpoint of a path without a table next to one of a path with a table,
\* re-resolved by a later registration to a start before its requested line.
C22_Witness ==
    /\ debug_config = Mapped
    /\ PathRA \in DOMAIN source_info
    /\ Len(source_info[PathRA]) = 3
    /\ \E i, j \in 1..Len(breakpoints) :
          /\ breakpoints[i].actual_path = PathLA
          /\ ~breakpoints[i].bp.verified
          /\ breakpoints[j].actual_path = PathRA
          /\ breakpoints[j].bp.line < breakpoints[j].sb_line
          /\ breakpoints[j].bp.end_line = 1

(* The resolution algorithm as specified, computed step by step: the walk back
   from min(L, len(T) - 1), then the forward scan from the walked-back start
   plus one, clamped to len(T). *)
RECURSIVE AlgWalk(_, _)
AlgWalk(T, start) ==
    IF start > 0 /\ T[start + 1] = Continuation THEN AlgWalk(T, start - 1) ELSE start

RECURSIVE AlgScan(_, _)
AlgScan(T, end) ==
    IF end < Len(T) /\ T[end + 1] = Continuation THEN AlgScan(T, end + 1) ELSE end

AlgStart(T, L) == AlgWalk(T, Min(L, Len(T) - 1))
AlgEnd(T, L) == Min(AlgScan(T, AlgStart(T, L) + 1), Len(T))
AlgVerified(T, L) == T[AlgStart(T, L) + 1] # Invalid

\* The result r of a copy of the code reports what the specified algorithm
\* gives: its start, its verified flag, and the range [start, end) as the lines
\* line..end_line.
AgreesWithAlgorithm(r, T, L) ==
    /\ r.line = AlgStart(T, L)
    /\ r.verified = AlgVerified(T, L)
    /\ r.end_line + 1 = AlgEnd(T, L)

\* C23: the copy of the resolution code in register_path_breakpoint and the one
\* in the set-breakpoints handler give the same result for every table and
\* requested line, and both give what the specified algorithm gives, whose
\* forward scan starts at the walked-back start plus one.
C23_CopiesAgree ==
    /\ rs.pc \in {"request", "both"} => AgreesWithAlgorithm(rs.out, rs.T, rs.line)
    /\ rs.pc = "both" =>
          /\ rs.reg = rs.out
          /\ AgreesWithAlgorithm(rs.reg, rs.T, rs.line)

\* C23's case: both copies have resolved a line whose walked-back start lies
\* two lines before it, so that the code's scan started two lines after the
\* algorithm's.
C23_Witness ==
    /\ rs.pc = "both"
    /\ rs.line < Len(rs.T)
    /\ rs.reg.line = rs.line - 2
    /\ rs.reg.end_line > rs.line
    /\ rs.reg.verified

\* C24: a request is forwarded only to a strategy that is attached when its
\* method is invoked: whenever a handler calls the method of the strategy that
\* _get_strategy gave it, that strategy is the one attached, its with_strategy
\* scope not yet left.
C24_CalledStrategyAttached ==
    [][(CallStrategy \/ CallStrategyRaises) =>
          (strategy # 0 /\ strategy = tstrat /\ pcStrat # "left")]_vars

\* C24's case: the handler holds the strategy _get_strategy returned and is
\* about to call its method, and the runtime has left that strategy's
\* with_strategy scope meanwhile.
C24_Witness ==
    /\ tpc = "call"
    /\ tstrat # 0
    /\ strategy = 0
    /\ pcStrat = "left"

====
